---- MODULE Spec2Model ----
(***************************************************************************)
(* lt-chalice: the upload handler (lt-chalice/app.py) and the lifecycle    *)
(* manager (manage_app.py), modelled as two state machines over the        *)
(* responses of the managed services they call.                            *)
(*                                                                         *)
(* A service call either succeeds or raises botocore's ClientError with an *)
(* error code; the code is what the program branches on.  The handler's    *)
(* DEBUG records are dropped by its fixed INFO level and are omitted; the  *)
(* script's records pass the level its logging configuration sets.         *)
(* The error payload err.response['Error'] is represented by its Code.     *)
(***************************************************************************)
EXTENDS Integers, Sequences, FiniteSets, TLC

\* ------------------------------------------------------------------ bounds
MaxFaces == 3
MaxObjects == 1

\* ------------------------------------------------------------ shared data
OK == "ok"
NoError == "none"

\* botocore.exceptions.ClientError.__str__ for an error code and operation
ClientErrorStr(code, op) ==
    "An error occurred (" \o code \o ") when calling the " \o op \o " operation: " \o code

LogRec(level, msg) == [level |-> level, msg |-> msg]

\* ====================================================================
\* Upload handler (lt-chalice/app.py)
\* ====================================================================
PHONE_NUM_PARAM == "/lt-chalice/phone"
S3_BUCKET == "photos"

AgeRanges == {[Low |-> 20, High |-> 30], [Low |-> 0, High |-> 3]}
FaceDetail(r) == [AgeRange |-> r]
FaceDetails == {FaceDetail(r) : r \in AgeRanges}
FaceLists == UNION {[1..n -> FaceDetails] : n \in 0..MaxFaces}

Events == {[bucket |-> S3_BUCKET, key |-> k] : k \in {"img1.jpg", "img2.jpg"}}
PhoneNumbers == {"+15550100", "+15550199"}

\* what detect_faces answers: the FaceDetails list, or a ClientError code
DetectResponses ==
    {[status |-> OK, FaceDetails |-> fl] : fl \in FaceLists}
        \cup {[status |-> "InvalidS3ObjectException", FaceDetails |-> <<>>]}
\* what get_parameter answers: the decrypted value, or a ClientError code
GetParameterResponses ==
    {[status |-> OK, Value |-> p] : p \in PhoneNumbers}
        \cup {[status |-> c, Value |-> ""] : c \in {"ParameterNotFound", "AccessDeniedException"}}
\* what the i-th publish call answers
PublishResponses == [1..MaxFaces -> {OK, "InvalidParameter"}]

VARIABLES event, detectResp, paramResp, pubResps,  \* the invocation's inputs
          hpc, faces, applog, published, result, hraised

hvars == <<event, detectResp, paramResp, pubResps,
           hpc, faces, applog, published, result, hraised>>

\* faulty variant: the two bounds of the range swapped
AgeMessageSwapped(face_detail) ==
    "The detected face is between " \o ToString(face_detail.AgeRange.High)
        \o " and " \o ToString(face_detail.AgeRange.Low) \o " years old"

\* 'The detected face is between {} and {} years old'.format(Low, High)
AgeMessage(face_detail) ==
    "The detected face is between " \o ToString(face_detail.AgeRange.Low)
        \o " and " \o ToString(face_detail.AgeRange.High) \o " years old"

RECURSIVE FaceLog(_, _)
FaceLog(face_list, i) ==
    IF i > Len(face_list) THEN <<>>
    ELSE <<LogRec("INFO", AgeMessage(face_list[i]))>> \o FaceLog(face_list, i + 1)

\* faulty variant: the ClientError of detect_faces is logged and re-raised
recognize_faces_reraise(ev, response) ==
    IF response.status = OK
    THEN [result |-> response.FaceDetails, raised |-> NoError, log |-> <<>>]
    ELSE [result |-> <<>>, raised |-> response.status,
          log |-> <<LogRec("ERROR", "Unable to run face detection! "
                                      \o ClientErrorStr(response.status, "DetectFaces"))>>]

\* recognize_faces(event): the list handed on and the records logged
recognize_faces(ev, response) ==
    IF response.status = OK
    THEN [result |-> response.FaceDetails, raised |-> NoError,
          log |-> <<LogRec("INFO", "Detected " \o ToString(Len(response.FaceDetails))
                                      \o " face(s) for " \o ev.key)>>
                  \o FaceLog(response.FaceDetails, 1)]
    ELSE [result |-> <<>>, raised |-> NoError,
          log |-> <<LogRec("ERROR", "Unable to run face detection! "
                                      \o ClientErrorStr(response.status, "DetectFaces"))>>]

\* the empty dict {}
EmptyDict == [k \in {} |-> ""]
EmptyResult == EmptyDict
PublishCall(face_detail, phone_num) ==
    [Message |-> AgeMessage(face_detail), PhoneNumber |-> phone_num]

\* the for loop of send_notification from face i on: acc holds the result so far,
\* the publish calls issued and the records logged
RECURSIVE publish_loop(_, _, _, _, _)
publish_loop(face_details, i, phone_num, resps, acc) ==
    IF i > Len(face_details) THEN acc
    ELSE LET call == PublishCall(face_details[i], phone_num)
         IN IF resps[i] = OK
            THEN publish_loop(face_details, i + 1, phone_num, resps,
                              [acc EXCEPT !.result = [MessageId |-> i],
                                          !.published = Append(@, call)])
            ELSE [acc EXCEPT !.published = Append(@, call),
                             !.log = Append(@, LogRec("ERROR", "Unable to send notification! "
                                                 \o ClientErrorStr(resps[i], "Publish")))]

\* faulty variant: the early return after a failed parameter read is missing
send_notification_noreturn(face_details, ssm_response, resps) ==
    publish_loop(face_details, 1, ssm_response.Value, resps,
                 [result |-> EmptyResult, published |-> <<>>, raised |-> NoError,
                  log |-> IF ssm_response.status # OK
                          THEN <<LogRec("ERROR", "Unable to retreive phone number! "
                                    \o ClientErrorStr(ssm_response.status, "GetParameter"))>>
                          ELSE <<>>])

\* send_notification(face_details)
send_notification(face_details, ssm_response, resps) ==
    IF ssm_response.status # OK
    THEN [result |-> EmptyResult, published |-> <<>>, raised |-> NoError,
          log |-> <<LogRec("ERROR", "Unable to retreive phone number! "
                                      \o ClientErrorStr(ssm_response.status, "GetParameter"))>>]
    ELSE publish_loop(face_details, 1, ssm_response.Value, resps,
                      [result |-> EmptyResult, published |-> <<>>, raised |-> NoError,
                       log |-> <<>>])

\* ====================================================================
\* Lifecycle manager (manage_app.py)
\* ====================================================================
DefaultUser == "lt-chalice-user"
\* the STS UserIds of the operators who run the script
Users == {"AIDA-A", "AIDA-B"}
NoUser == "nobody"
PhoneValues == {"+15550100", "+15550199"}
\* --phone-number-parameter-value not given: None
NoValue == "<None>"
NoParam == [exists |-> FALSE]
\* a stored SecureString parameter with its CreatedBy tag
Param(value, created_by) == [exists |-> TRUE, Value |-> value, CreatedBy |-> created_by]

\* an external call answers per the service's state (OK) or with an unexpected error
Injected == {OK, "AccessDenied"}
RunResponses == {OK, "CalledProcessError", "FileNotFoundError"}
FileResponses == {OK, "FileNotFoundError"}

Call(api, code) == [api |-> api, code |-> code]

\* .chalice/config.json as shipped: other keys, with or without environment_variables
BaseConfig == [version |-> "2.0", app_name |-> "lt-chalice"]
InitialConfigs ==
    {BaseConfig,
     [version |-> "2.0", app_name |-> "lt-chalice",
      environment_variables |-> [LOG_LEVEL |-> "INFO"]]}

VARIABLES bucket, objects, param, config, deployed,   \* the resources
          pc, args, caller, steps, calls, log, raised,  \* the running script
          loglevel,       \* the root logger's level
          logcalls,       \* every record handed to the logger, whatever the level
          creator,        \* history: the operator whose call created the parameter
          bucketCreated   \* history: create_bucket has succeeded at some time

mvars == <<bucket, objects, param, config, deployed,
           pc, args, caller, steps, calls, log, raised, loglevel, logcalls,
           creator, bucketCreated>>
vars == <<hvars, mvars>>

NoArgs == [action |-> "none", s3_bucket |-> "", phone_num_name |-> "", phone_num_value |-> ""]

\* no script running, nothing provisioned
ManageIdle ==
    /\ bucket = FALSE
    /\ objects = 0
    /\ param = NoParam
    /\ creator = NoUser
    /\ bucketCreated = FALSE
    /\ deployed = FALSE
    /\ pc = "idle"
    /\ args = NoArgs
    /\ caller = NoUser
    /\ steps = <<>>
    /\ calls = <<>>
    /\ log = <<>>
    /\ raised = NoError
    /\ loglevel = "WARNING"
    /\ logcalls = <<>>

\* logging's numeric levels
LevelNo(level) ==
    CASE level = "DEBUG" -> 10
      [] level = "INFO" -> 20
      [] level = "WARNING" -> 30
      [] level = "ERROR" -> 40
      [] OTHER -> 50

\* the records of recs the root logger lets through at the given level
Emitted(level, recs) == SelectSeq(recs, LAMBDA r : LevelNo(r.level) >= LevelNo(level))

Levels == {"DEBUG", "INFO", "WARNING", "ERROR", "CRITICAL"}

\* what setup_logging finds in .manage_app.logging_config.yml.  outcome: no file, a
\* file yaml cannot parse, a config dictConfig accepts, or one it rejects; level and
\* handler: the root logger's level and whether it has a handler when dictConfig
\* returns or raises (the root logger is configured last: a config rejected before
\* that leaves level WARNING and no handler); err: the text of the exception
LoggingConfig(outcome, level, handler, err) ==
    [outcome |-> outcome, level |-> level, handler |-> handler, err |-> err]
LoggingConfigs ==
    {LoggingConfig(e, "WARNING", FALSE, e) : e \in {"FileNotFoundError", "YAMLError"}}
       \cup {LoggingConfig("accepted", l, h, "") : l \in Levels, h \in BOOLEAN}
       \cup {LoggingConfig("rejected", "WARNING", FALSE, "Unsupported version: 2")}
       \cup {LoggingConfig("rejected", l, h, "Unable to configure root logger") :
                 l \in Levels, h \in BOOLEAN}

\* setup_logging(): only ValueError, TypeError, AttributeError and ImportError are
\* caught, anything else leaves the script.  In the handler basicConfig(level=INFO)
\* does nothing when the root logger already has a handler, so the level dictConfig
\* had set stays; the warning goes to the root logger after it.
setup_logging(lc) ==
    IF lc.outcome \in {"FileNotFoundError", "YAMLError"}
    THEN [level |-> "WARNING", raised |-> lc.outcome, log |-> <<>>]
    ELSE IF lc.outcome = "rejected"
    THEN [level |-> IF lc.handler THEN lc.level ELSE "INFO", raised |-> NoError,
          log |-> <<LogRec("WARNING", "Unable to use supplied logging config; continuing "
                              \o "with basic logging.                 " \o lc.err)>>]
    ELSE [level |-> lc.level, raised |-> NoError, log |-> <<>>]

\* json.dumps of the config: keys in the file's order, new keys last
TopKeyOrder == <<"version", "app_name", "environment_variables">>
EnvKeyOrder == <<"LOG_LEVEL", "PHONE_NUM_PARAM", "S3_BUCKET">>
Quoted(str) == "\"" \o str \o "\""

RECURSIVE DumpsItems(_, _, _, _, _)
DumpsItems(d, order, i, first, nested) ==
    IF i > Len(order) THEN ""
    ELSE IF order[i] \notin DOMAIN d THEN DumpsItems(d, order, i + 1, first, nested)
    ELSE (IF first THEN "" ELSE ", ")
            \o Quoted(order[i]) \o ": "
            \o (IF nested /\ order[i] = "environment_variables"
                THEN "{" \o DumpsItems(d[order[i]], EnvKeyOrder, 1, TRUE, FALSE) \o "}"
                ELSE Quoted(d[order[i]]))
            \o DumpsItems(d, order, i + 1, FALSE, nested)

dumps(cfg) == "{" \o DumpsItems(cfg, TopKeyOrder, 1, TRUE, TRUE) \o "}"

\* d[k] = v on a dict
DictSet(d, k, v) == [x \in (DOMAIN d) \cup {k} |-> IF x = k THEN v ELSE d[x]]

\* faulty variants of the benign-code tests below
SwallowsEveryCode(code) == TRUE
BucketDeleteNeverBenign(code) == FALSE
ParamDeleteNeverBenign(code) == FALSE

\* the codes create_s3_bucket / delete_s3_bucket / delete_ssm_param treat as success
BucketCreateBenign(code) == code = "BucketAlreadyOwnedByYou"
BucketDeleteBenign(code) == code = "NoSuchBucket"
ParamDeleteBenign(code) == code = "ParameterNotFound"

\* create_s3_bucket(args)
create_s3_bucket(a, bkt, resp) ==
    LET code == IF resp # OK THEN resp
                ELSE IF bkt THEN "BucketAlreadyOwnedByYou" ELSE OK
        call == <<Call("create_bucket", code)>>
    IN  IF code = OK
        THEN [bucket |-> TRUE, calls |-> call, raised |-> NoError,
              log |-> <<LogRec("INFO", "S3 bucket \"" \o a.s3_bucket \o "\" created")>>]
        ELSE IF BucketCreateBenign(code)
        THEN [bucket |-> bkt, calls |-> call, raised |-> NoError,
              log |-> <<LogRec("INFO", "S3 bucket \"" \o a.s3_bucket
                                  \o "\" already exists, and you own it.  Proceeding.")>>]
        ELSE [bucket |-> bkt, calls |-> call, raised |-> code,
              log |-> <<LogRec("ERROR", "Unable to create S3 bucket! " \o code)>>]

\* delete_s3_bucket: the except branch, for the code of the call that failed
delete_s3_bucket_except(a, code) ==
    IF BucketDeleteBenign(code)
    THEN [raised |-> NoError,
          log |-> <<LogRec("INFO", "S3 bucket \"" \o a.s3_bucket
                              \o "\" does not exist.  Proceeding.")>>]
    ELSE [raised |-> code,
          log |-> <<LogRec("ERROR", "Unable to delete S3 bucket! " \o code)>>]

\* delete_s3_bucket(args), first request: bucket.objects.all().delete()
objects_delete(a, bkt, objs, resp) ==
    LET code == IF resp # OK THEN resp
                ELSE IF bkt THEN OK ELSE "NoSuchBucket"
        call == <<Call("objects.delete", code)>>
    IN  IF code = OK
        THEN [code |-> code, objects |-> 0, calls |-> call, raised |-> NoError, log |-> <<>>]
        ELSE [code |-> code, objects |-> objs, calls |-> call,
              raised |-> delete_s3_bucket_except(a, code).raised,
              log |-> delete_s3_bucket_except(a, code).log]

\* delete_s3_bucket(args), second request: bucket.delete(), which S3 refuses while
\* the bucket holds an object
bucket_delete(a, bkt, objs, resp) ==
    LET code == IF resp # OK THEN resp
                ELSE IF ~bkt THEN "NoSuchBucket"
                ELSE IF objs > 0 THEN "BucketNotEmpty" ELSE OK
        call == <<Call("bucket.delete", code)>>
    IN  IF code = OK
        THEN [bucket |-> FALSE, calls |-> call, raised |-> NoError,
              log |-> <<LogRec("INFO", "S3 bucket \"" \o a.s3_bucket \o "\" deleted")>>]
        ELSE [bucket |-> bkt, calls |-> call,
              raised |-> delete_s3_bucket_except(a, code).raised,
              log |-> delete_s3_bucket_except(a, code).log]

\* get_ssm_param_userid(client, args): the CreatedBy tag, or the placeholder
get_ssm_param_userid(p, resp) ==
    LET code == IF resp # OK THEN resp
                ELSE IF p.exists THEN OK ELSE "InvalidResourceId"
    IN  [user_id |-> IF code = OK THEN p.CreatedBy ELSE DefaultUser,
         calls |-> <<Call("list_tags_for_resource", code)>>,
         log |-> IF code \notin {OK, "InvalidResourceId"}
                 THEN <<LogRec("ERROR", "Unable to get SSM parameter tags! " \o code)>>
                 ELSE <<>>]

\* get_current_user(): the caller's UserId, or the placeholder
get_current_user(who, resp) ==
    [user |-> IF resp = OK THEN who ELSE DefaultUser,
     calls |-> <<Call("get_caller_identity", resp)>>,
     log |-> IF resp = OK THEN <<>>
             ELSE <<LogRec("WARNING", "Unable to retrieve current user.  Defaulting to \""
                              \o DefaultUser \o "\". "
                              \o ClientErrorStr(resp, "GetCallerIdentity"))>>]

\* the comparison both parameter operations make before they mutate
IsOwner(current_user, param_user) == current_user = param_user

\* create_ssm_param(args)
create_ssm_param(a, who, p, respSts, respTags, respPut, respOverwrite, respRetag) ==
    LET cu == get_current_user(who, respSts)
        pu == get_ssm_param_userid(p, respTags)
        current_user == cu.user
        param_user == pu.user_id
        log0 == cu.log \o pu.log
        calls0 == cu.calls \o pu.calls
        \* Value=None fails botocore's parameter validation before any request;
        \* ParamValidationError is no ClientError and leaves the function unlogged
        putCode == IF a.phone_num_value = NoValue THEN "ParamValidationError"
                   ELSE IF respPut # OK THEN respPut
                   ELSE IF p.exists THEN "ParameterAlreadyExists" ELSE OK
        put == Call("put_parameter", putCode)
        overwrite == Call("put_parameter(Overwrite)", respOverwrite)
        retag == Call("add_tags_to_resource", respRetag)
    IN  IF putCode = OK
        THEN [param |-> Param(a.phone_num_value, current_user),
              calls |-> Append(calls0, put), raised |-> NoError,
              log |-> Append(log0, LogRec("INFO", "SSM parameter \"" \o a.phone_num_name
                                                     \o "\" created"))]
        ELSE IF putCode = "ParameterAlreadyExists"
        THEN IF IsOwner(current_user, param_user)
             THEN IF respOverwrite # OK
                  THEN [param |-> p, calls |-> calls0 \o <<put, overwrite>>,
                        raised |-> respOverwrite, log |-> log0]
                  ELSE IF respRetag # OK
                  THEN [param |-> [p EXCEPT !.Value = a.phone_num_value],
                        calls |-> calls0 \o <<put, overwrite, retag>>,
                        raised |-> respRetag, log |-> log0]
                  ELSE [param |-> Param(a.phone_num_value, current_user),
                        calls |-> calls0 \o <<put, overwrite, retag>>, raised |-> NoError,
                        log |-> Append(log0, LogRec("INFO", "SSM parameter \""
                                                 \o a.phone_num_name \o "\" updated"))]
             ELSE [param |-> p, calls |-> Append(calls0, put), raised |-> NoError,
                   log |-> log0]
        ELSE IF putCode = "ParamValidationError"
        THEN [param |-> p, calls |-> Append(calls0, put), raised |-> putCode, log |-> log0]
        ELSE [param |-> p, calls |-> Append(calls0, put), raised |-> putCode,
              log |-> Append(log0, LogRec("ERROR", "Unable to create SSM parameter! "
                                                     \o putCode))]

\* delete_ssm_param(args)
delete_ssm_param(a, who, p, respSts, respTags, respDelete) ==
    LET cu == get_current_user(who, respSts)
        pu == get_ssm_param_userid(p, respTags)
        current_user == cu.user
        param_user == pu.user_id
        log0 == cu.log \o pu.log
        calls0 == cu.calls \o pu.calls
        code == IF respDelete # OK THEN respDelete
                ELSE IF p.exists THEN OK ELSE "ParameterNotFound"
        del == Call("delete_parameter", code)
    IN  IF IsOwner(current_user, param_user)
        THEN IF code = OK
             THEN [param |-> NoParam, calls |-> Append(calls0, del), raised |-> NoError,
                   log |-> Append(log0, LogRec("INFO", "SSM parameter \""
                                            \o a.phone_num_name \o "\" deleted"))]
             ELSE IF ParamDeleteBenign(code)
             THEN [param |-> p, calls |-> Append(calls0, del), raised |-> NoError,
                   log |-> Append(log0, LogRec("INFO", "SSM parameter \""
                                            \o a.phone_num_name
                                            \o "\" does not exist.  Proceeding."))]
             ELSE [param |-> p, calls |-> Append(calls0, del), raised |-> code,
                   log |-> Append(log0, LogRec("ERROR", "Unable to delete SSM parameter! "
                                                          \o code))]
        ELSE [param |-> p, calls |-> calls0, raised |-> NoError,
              log |-> Append(log0, LogRec("WARNING", "SSM parameter \"" \o a.phone_num_name
                                            \o "\" was not created by you!  Skipping."))]

\* the two entries update_chalice_config writes
EnvValues(a, delete_flag) ==
    IF delete_flag
    THEN [PHONE_NUM_PARAM |-> "", S3_BUCKET |-> ""]
    ELSE [PHONE_NUM_PARAM |-> a.phone_num_name, S3_BUCKET |-> a.s3_bucket]

\* faulty variant: environment_variables is rebuilt instead of updated
UpdatedConfigFresh(cfg, a, delete_flag) ==
    DictSet(cfg, "environment_variables", EnvValues(a, delete_flag))

\* the config dict update_chalice_config dumps
UpdatedConfig(cfg, a, delete_flag) ==
    LET c1 == IF "environment_variables" \notin DOMAIN cfg
              THEN DictSet(cfg, "environment_variables", EmptyDict)
              ELSE cfg
        ev == EnvValues(a, delete_flag)
        env == DictSet(DictSet(c1["environment_variables"],
                               "PHONE_NUM_PARAM", ev.PHONE_NUM_PARAM),
                       "S3_BUCKET", ev.S3_BUCKET)
    IN  DictSet(c1, "environment_variables", env)

\* update_chalice_config(args, delete_flag)
update_chalice_config(a, cfg, delete_flag, respRead, respWrite) ==
    LET before == LogRec("DEBUG", "Chalice config before: " \o dumps(cfg))
        new == UpdatedConfig(cfg, a, delete_flag)
    IN  IF respRead # OK
        THEN [config |-> cfg, calls |-> <<Call("open(config.json, r)", respRead)>>,
              raised |-> respRead,
              log |-> <<LogRec("ERROR", "Unable to update Chalice config! " \o respRead)>>]
        ELSE IF respWrite # OK
        THEN [config |-> cfg,
              calls |-> <<Call("open(config.json, r)", OK),
                          Call("open(config.json, w)", respWrite)>>,
              raised |-> respWrite,
              log |-> <<before,
                        LogRec("ERROR", "Unable to update Chalice config! " \o respWrite)>>]
        ELSE [config |-> new,
              calls |-> <<Call("open(config.json, r)", OK), Call("open(config.json, w)", OK)>>,
              raised |-> NoError,
              log |-> <<before, LogRec("DEBUG", "Chalice config after: " \o dumps(new))>>]

\* chalice_command(args, action)
chalice_command(action, isDeployed, resp) ==
    LET call == <<Call("chalice " \o action, resp)>>
        dbg == LogRec("DEBUG", "action: " \o action)
    IN  IF resp = OK
        THEN [deployed |-> (action = "deploy"), calls |-> call, raised |-> NoError,
              log |-> <<dbg, LogRec("INFO", action \o "\nstdout")>>]
        ELSE IF resp = "CalledProcessError"
        THEN [deployed |-> isDeployed, calls |-> call, raised |-> resp,
              log |-> <<dbg, LogRec("ERROR", "stderr"), LogRec("ERROR", "stdout")>>]
        ELSE [deployed |-> isDeployed, calls |-> call, raised |-> resp,
              log |-> <<dbg, LogRec("ERROR", "Unable to run Chalice command! " \o resp)>>]

\* the step functions deploy(arguments) and delete(arguments) call, in order
DeploySteps == <<"create_s3_bucket", "create_ssm_param", "update_chalice_config",
                 "chalice_command">>
DeleteSteps == <<"chalice_command", "update_chalice_config", "delete_ssm_param",
                 "delete_s3_bucket">>
StepsOf(action) == IF action = "deploy" THEN DeploySteps ELSE DeleteSteps

\* where control goes when the n-th step function returns normally
AfterStep(action, n) ==
    IF n < Len(StepsOf(action)) THEN StepsOf(action)[n + 1] ELSE "done"

\* a step function returned (r.raised = NoError) or raised: the exception leaves
\* deploy/delete and ends the process
Finish(r, n) ==
    LET nextpc == IF r.raised # NoError THEN "raised" ELSE AfterStep(args.action, n)
        recs == r.log \o (IF nextpc = "done" THEN <<LogRec("INFO", "Complete")>> ELSE <<>>)
    IN  /\ calls' = calls \o r.calls
        /\ raised' = r.raised
        /\ pc' = nextpc
        /\ logcalls' = logcalls \o recs
        /\ log' = log \o Emitted(loglevel, recs)
        /\ loglevel' = loglevel

Advance(step, r) ==
    /\ pc = step
    /\ steps' = Append(steps, step)
    /\ Finish(r, Len(steps) + 1)

\* __main__: a run of the script begins with setup_logging(); what it raises ends
\* the run before the arguments are parsed
SetupLogging ==
    /\ pc \in {"idle", "done", "raised"}
    /\ \E lc \in LoggingConfigs :
          LET sl == setup_logging(lc)
          IN  /\ loglevel' = sl.level
              /\ raised' = sl.raised
              /\ pc' = IF sl.raised # NoError THEN "raised" ELSE "parse_arguments"
              /\ logcalls' = sl.log
              /\ log' = Emitted(sl.level, sl.log)
    /\ args' = NoArgs
    /\ caller' = NoUser
    /\ steps' = <<>>
    /\ calls' = <<>>
    /\ UNCHANGED <<bucket, objects, param, creator, bucketCreated, config, deployed>>
    /\ UNCHANGED hvars

\* __main__: parse_arguments() and locals()[ARGS.action](ARGS), run by one of the
\* operators; deploy / delete log their first record and go to their first step
Dispatch ==
    /\ pc = "parse_arguments"
    /\ \E who \in Users, act \in {"deploy", "delete"}, v \in PhoneValues \cup {NoValue} :
          LET recs == <<LogRec("INFO", IF act = "deploy" THEN "Deploying Chalice app..."
                                                       ELSE "Deleting Chalice app...")>>
          IN  /\ caller' = who
              /\ args' = [action |-> act, s3_bucket |-> S3_BUCKET,
                          phone_num_name |-> PHONE_NUM_PARAM, phone_num_value |-> v]
              /\ pc' = StepsOf(act)[1]
              /\ logcalls' = logcalls \o recs
              /\ log' = log \o Emitted(loglevel, recs)
    /\ UNCHANGED <<bucket, objects, param, creator, bucketCreated, config, deployed,
                   steps, calls, raised, loglevel>>
    /\ UNCHANGED hvars

CreateS3Bucket ==
    /\ \E resp \in Injected :
          LET r == create_s3_bucket(args, bucket, resp)
          IN  /\ Advance("create_s3_bucket", r)
              /\ bucket' = r.bucket
              /\ bucketCreated' = (bucketCreated \/ (~bucket /\ r.bucket))
    /\ UNCHANGED <<objects, param, creator, config, deployed, args, caller>>
    /\ UNCHANGED hvars

\* delete_s3_bucket up to the answer of bucket.objects.all().delete()
DeleteS3BucketEmpty ==
    /\ pc = "delete_s3_bucket"
    /\ \E resp \in Injected :
          LET r == objects_delete(args, bucket, objects, resp)
          IN  /\ objects' = r.objects
              /\ IF r.code = OK
                 THEN /\ pc' = "bucket.delete"
                      /\ steps' = Append(steps, "delete_s3_bucket")
                      /\ calls' = calls \o r.calls
                      /\ UNCHANGED <<raised, log, loglevel, logcalls>>
                 ELSE Advance("delete_s3_bucket", r)
    /\ UNCHANGED <<bucket, param, creator, bucketCreated, config, deployed, args, caller>>
    /\ UNCHANGED hvars

\* delete_s3_bucket from bucket.delete() on
DeleteS3BucketDelete ==
    /\ pc = "bucket.delete"
    /\ \E resp \in Injected :
          LET r == bucket_delete(args, bucket, objects, resp)
          IN  /\ bucket' = r.bucket
              /\ Finish(r, Len(steps))
    /\ UNCHANGED <<objects, steps, param, creator, bucketCreated, config, deployed,
                   args, caller>>
    /\ UNCHANGED hvars

CreateSsmParam ==
    /\ \E respSts \in Injected, respTags \in Injected, respPut \in Injected,
          respOverwrite \in Injected, respRetag \in Injected :
          LET r == create_ssm_param(args, caller, param, respSts, respTags, respPut,
                                    respOverwrite, respRetag)
          IN  /\ Advance("create_ssm_param", r)
              /\ param' = r.param
              /\ creator' = IF ~param.exists /\ r.param.exists THEN caller ELSE creator
    /\ UNCHANGED <<bucket, objects, bucketCreated, config, deployed, args, caller>>
    /\ UNCHANGED hvars

DeleteSsmParam ==
    /\ \E respSts \in Injected, respTags \in Injected, respDelete \in Injected :
          LET r == delete_ssm_param(args, caller, param, respSts, respTags, respDelete)
          IN  /\ Advance("delete_ssm_param", r)
              /\ param' = r.param
              /\ creator' = IF r.param.exists THEN creator ELSE NoUser
    /\ UNCHANGED <<bucket, objects, bucketCreated, config, deployed, args, caller>>
    /\ UNCHANGED hvars

UpdateChaliceConfig ==
    /\ \E respRead \in FileResponses, respWrite \in FileResponses :
          LET r == update_chalice_config(args, config, args.action = "delete",
                                         respRead, respWrite)
          IN  /\ Advance("update_chalice_config", r)
              /\ config' = r.config
    /\ UNCHANGED <<bucket, objects, param, creator, bucketCreated, deployed, args, caller>>
    /\ UNCHANGED hvars

ChaliceCommand ==
    /\ \E resp \in RunResponses :
          LET r == chalice_command(args.action, deployed, resp)
          IN  /\ Advance("chalice_command", r)
              /\ deployed' = r.deployed
    /\ UNCHANGED <<bucket, objects, param, creator, bucketCreated, config, args, caller>>
    /\ UNCHANGED hvars

\* an image is uploaded to the bucket (s3:ObjectCreated)
UploadObject ==
    /\ bucket
    /\ objects < MaxObjects
    /\ objects' = objects + 1
    /\ UNCHANGED <<bucket, param, creator, bucketCreated, config, deployed,
                   pc, args, caller, steps, calls, log, raised, loglevel, logcalls>>
    /\ UNCHANGED hvars

\* the handler is not running while the script is modelled
HandlerIdle ==
    /\ event = [bucket |-> S3_BUCKET, key |-> "img1.jpg"]
    /\ detectResp = [status |-> OK, FaceDetails |-> <<>>]
    /\ paramResp = [status |-> "ParameterNotFound", Value |-> ""]
    /\ pubResps = [i \in 1..MaxFaces |-> OK]
    /\ hpc = "idle"
    /\ faces = <<>>
    /\ applog = <<>>
    /\ published = <<>>
    /\ result = EmptyResult
    /\ hraised = NoError

Init ==
    /\ ManageIdle
    /\ config \in InitialConfigs
    /\ HandlerIdle

Next ==
    \/ SetupLogging
    \/ Dispatch
    \/ CreateS3Bucket
    \/ CreateSsmParam
    \/ UpdateChaliceConfig
    \/ ChaliceCommand
    \/ DeleteSsmParam
    \/ DeleteS3BucketEmpty
    \/ DeleteS3BucketDelete
    \/ UploadObject

Spec == Init /\ [][Next]_vars

HandlerInit ==
    /\ event \in Events
    /\ detectResp \in DetectResponses
    /\ paramResp \in GetParameterResponses
    /\ pubResps \in PublishResponses
    /\ hpc = "recognize_faces"
    /\ faces = <<>>
    /\ applog = <<>>
    /\ published = <<>>
    /\ result = EmptyResult
    /\ hraised = NoError
    /\ ManageIdle
    /\ config = BaseConfig

RecognizeFaces ==
    /\ hpc = "recognize_faces"
    /\ LET r == recognize_faces(event, detectResp)
       IN /\ faces' = r.result
          /\ applog' = applog \o r.log
          /\ hraised' = r.raised
          /\ hpc' = IF r.raised = NoError THEN "send_notification" ELSE "raised"
    /\ UNCHANGED <<event, detectResp, paramResp, pubResps, published, result>>
    /\ UNCHANGED mvars

SendNotification ==
    /\ hpc = "send_notification"
    /\ LET r == send_notification(faces, paramResp, pubResps)
       IN /\ result' = r.result
          /\ published' = r.published
          /\ applog' = applog \o r.log
          /\ hraised' = r.raised
          /\ hpc' = IF r.raised = NoError THEN "returned" ELSE "raised"
    /\ UNCHANGED <<event, detectResp, paramResp, pubResps, faces>>
    /\ UNCHANGED mvars

\* image_upload_handler(event): send_notification(recognize_faces(event))
image_upload_handler == RecognizeFaces \/ SendNotification

HandlerSpec == HandlerInit /\ [][image_upload_handler]_vars

\* ====================================================================
\* Properties of the upload handler (checked under HandlerSpec)
\* ====================================================================
Returned == hpc = "returned"
NumFaces == Len(detectResp.FaceDetails)

\* the text the notification carries for an age range, written out
ExpectedText(r) ==
    IF r = [Low |-> 20, High |-> 30]
    THEN "The detected face is between 20 and 30 years old"
    ELSE "The detected face is between 0 and 3 years old"

ExpectedCall(i) ==
    [Message |-> ExpectedText(detectResp.FaceDetails[i].AgeRange),
     PhoneNumber |-> paramResp.Value]

\* the number of publish calls issued: every face, or up to the first call that fails
FirstFailure ==
    IF \E i \in 1..NumFaces : pubResps[i] # OK
    THEN CHOOSE i \in 1..NumFaces :
            /\ pubResps[i] # OK
            /\ \A j \in 1..(i - 1) : pubResps[j] = OK
    ELSE NumFaces

\* C1 as stated: whenever detection succeeds with k faces, exactly k publish calls
\* are issued, one per face in order, with the age text, to the stored number.
C1_ExactlyKPublishCalls ==
    (Returned /\ detectResp.status = OK) =>
        /\ Len(published) = NumFaces
        /\ \A i \in 1..NumFaces : published[i] = ExpectedCall(i)

\* C1 amended: when detection succeeds with k faces and the parameter read
\* succeeds, publish calls are issued one per face in the order returned, each with
\* the age text and to the number read, up to and including the first publish call
\* that fails: exactly k when none fails.  (A failed read issues none: C2.)
C1_PublishPerFaceUntilFailure ==
    (Returned /\ detectResp.status = OK /\ paramResp.status = OK) =>
        /\ Len(published) = FirstFailure
        /\ \A i \in 1..FirstFailure : published[i] = ExpectedCall(i)
        /\ (\A i \in 1..NumFaces : pubResps[i] = OK) => Len(published) = NumFaces
        /\ hraised = NoError

C1_Witness ==
    /\ Returned
    /\ detectResp.status = OK
    /\ paramResp.status = OK
    /\ NumFaces = 3
    /\ \A i \in 1..NumFaces : pubResps[i] = OK
    /\ Len(published) = 3
    /\ published[1].Message # published[2].Message

\* C2: a failed parameter read means no publish call whatever the number of faces,
\* the failure is logged, and send_notification returns the empty result without
\* raising.
C2_NoPublishWhenParameterReadFails ==
    (hpc \in {"returned", "raised"} /\ paramResp.status # OK) =>
        /\ published = <<>>
        /\ result = EmptyDict
        /\ hraised = NoError
        /\ Returned
        /\ Len(applog) > 0
        /\ applog[Len(applog)].level = "ERROR"
        /\ applog[Len(applog)].msg \in
              {"Unable to retreive phone number! " \o ClientErrorStr(c, "GetParameter") :
                  c \in {"ParameterNotFound", "AccessDeniedException"}}

C2_Witness ==
    /\ Returned
    /\ paramResp.status = "ParameterNotFound"
    /\ Len(faces) = 2
    /\ published = <<>>

\* C9: a failed detect_faces call is logged as an error, recognize_faces returns the
\* empty list without raising, and the invocation completes without raising and
\* without a publish call.
C9_DetectionFailureIsSwallowed ==
    (detectResp.status # OK /\ hpc # "recognize_faces") =>
        /\ hpc \in {"send_notification", "returned"}
        /\ hraised = NoError
        /\ faces = <<>>
        /\ applog[1] = [level |-> "ERROR",
                        msg |-> "Unable to run face detection! "
                                  \o ClientErrorStr(detectResp.status, "DetectFaces")]
        /\ published = <<>>

C9_Witness ==
    /\ Returned
    /\ detectResp.status # OK
    /\ paramResp.status = OK
    /\ published = <<>>
    /\ Len(applog) = 1

\* ====================================================================
\* Properties of the lifecycle manager (checked under Spec)
\* ====================================================================
Finished == pc \in {"done", "raised"}
HasCall(api, code) == \E i \in 1..Len(calls) : calls[i] = [api |-> api, code |-> code]

ExpectedDeployOrder ==
    <<"create_s3_bucket", "create_ssm_param", "update_chalice_config", "chalice_command">>
ExpectedDeleteOrder ==
    <<"chalice_command", "update_chalice_config", "delete_ssm_param", "delete_s3_bucket">>

\* a call of deploy whose failure no step recovers from
DeployAborting(c) ==
    \/ c.api = "create_bucket" /\ c.code \notin {OK, "BucketAlreadyOwnedByYou"}
    \/ c.api = "put_parameter" /\ c.code \notin {OK, "ParameterAlreadyExists"}
    \/ c.api \in {"put_parameter(Overwrite)", "add_tags_to_resource",
                  "open(config.json, r)", "open(config.json, w)", "chalice deploy"}
         /\ c.code # OK

\* C5: deploy runs create bucket, create/update parameter, rewrite configuration,
\* deployment tool in that order; an unrecovered error of a step propagates and no
\* later step runs, so the tool runs only after the three earlier steps completed.
C5_DeployOrderAndAbort ==
    args.action = "deploy" =>
        /\ Len(steps) <= 4
        /\ \A i \in 1..Len(steps) : steps[i] = ExpectedDeployOrder[i]
        /\ \/ pc = "raised"
           \/ pc = "done" /\ steps = ExpectedDeployOrder /\ raised = NoError
           \/ Len(steps) < 4 /\ pc = ExpectedDeployOrder[Len(steps) + 1] /\ raised = NoError
        /\ \A i \in 1..Len(calls) :
              DeployAborting(calls[i]) =>
                  /\ i = Len(calls)
                  /\ pc = "raised"
                  /\ raised = calls[i].code
        /\ \A i \in 1..Len(calls) :
              calls[i].api = "chalice deploy" =>
                  /\ steps = ExpectedDeployOrder
                  /\ \A j \in 1..(i - 1) : ~DeployAborting(calls[j])

C5_Witness ==
    /\ args.action = "deploy"
    /\ pc = "raised"
    /\ steps = <<"create_s3_bucket", "create_ssm_param">>
    /\ raised = "AccessDenied"
    /\ HasCall("create_bucket", OK)

\* the script handed the record to its logger
Logged(level, msg) ==
    \E j \in 1..Len(logcalls) : logcalls[j] = [level |-> level, msg |-> msg]

ConfigBlanked ==
    /\ "environment_variables" \in DOMAIN config
    /\ {"PHONE_NUM_PARAM", "S3_BUCKET"} \subseteq DOMAIN config["environment_variables"]
    /\ config["environment_variables"]["PHONE_NUM_PARAM"] = ""
    /\ config["environment_variables"]["S3_BUCKET"] = ""

\* a call of delete whose failure no step recovers from
DeleteAborting(c) ==
    \/ c.api \in {"chalice delete", "open(config.json, r)", "open(config.json, w)"}
         /\ c.code # OK
    \/ c.api = "delete_parameter" /\ c.code \notin {OK, "ParameterNotFound"}
    \/ c.api \in {"objects.delete", "bucket.delete"} /\ c.code \notin {OK, "NoSuchBucket"}

\* C6: delete for a bucket that was never created completes without raising and
\* leaves PHONE_NUM_PARAM and S3_BUCKET set to the empty string: the bucket's
\* NoSuchBucket is never raised, and the run that gets it ends done with all four
\* steps taken and both entries blank.  The only runs that end otherwise are those
\* in which some call fails for a reason of its own (the deployment tool, the
\* configuration file, delete_parameter or the bucket answering an error other than
\* NoSuchBucket): that failure is then the run's last call and the error raised,
\* and the entries are blank whenever the configuration step had completed.
C6_DeleteOfMissingBucketCompletes ==
    (args.action = "delete" /\ Finished /\ ~bucketCreated) =>
        /\ ~bucket
        /\ raised # "NoSuchBucket"
        /\ ~HasCall("bucket.delete", OK)
        /\ HasCall("objects.delete", "NoSuchBucket") =>
              /\ pc = "done"
              /\ raised = NoError
              /\ steps = ExpectedDeleteOrder
              /\ ConfigBlanked
        /\ \/ /\ pc = "done"
              /\ raised = NoError
              /\ HasCall("objects.delete", "NoSuchBucket")
              /\ \A i \in 1..Len(calls) : ~DeleteAborting(calls[i])
           \/ /\ pc = "raised"
              /\ Len(calls) > 0
              /\ DeleteAborting(calls[Len(calls)])
              /\ raised = calls[Len(calls)].code
              /\ Len(steps) >= 3 => ConfigBlanked

C6_Witness ==
    /\ args.action = "delete"
    /\ pc = "done"
    /\ ~bucketCreated
    /\ HasCall("objects.delete", "NoSuchBucket")
    /\ ConfigBlanked
    /\ "LOG_LEVEL" \in DOMAIN config["environment_variables"]
    /\ steps = ExpectedDeleteOrder
    /\ raised = NoError

\* C7: the benign answers are passed over and the action goes on: create_bucket's
\* BucketAlreadyOwnedByYou (the second deploy), the bucket's NoSuchBucket on delete,
\* and a parameter that does not exist on delete (ParameterNotFound, or the skip
\* when the lookup finds no parameter); each is handed to the logger as an INFO
\* record, nothing is raised and the next step runs.
C7_BenignConditionsDoNotAbort ==
    /\ raised \notin {"BucketAlreadyOwnedByYou", "NoSuchBucket", "ParameterNotFound",
                      "InvalidResourceId"}
    /\ HasCall("create_bucket", "BucketAlreadyOwnedByYou") =>
          /\ bucket
          /\ Logged("INFO", "S3 bucket \"photos\" already exists, and you own it.  Proceeding.")
          /\ pc = "create_ssm_param" \/ (Len(steps) >= 2 /\ steps[2] = "create_ssm_param")
    /\ (HasCall("objects.delete", "NoSuchBucket") \/ HasCall("bucket.delete", "NoSuchBucket")) =>
          /\ Logged("INFO", "S3 bucket \"photos\" does not exist.  Proceeding.")
          /\ pc = "done"
          /\ raised = NoError
    /\ HasCall("delete_parameter", "ParameterNotFound") =>
          /\ Logged("INFO", "SSM parameter \"/lt-chalice/phone\" does not exist.  Proceeding.")
          /\ pc = "delete_s3_bucket" \/ (Len(steps) = 4 /\ steps[4] = "delete_s3_bucket")
    /\ (/\ args.action = "delete"
        /\ HasCall("list_tags_for_resource", "InvalidResourceId")
        /\ ~HasCall("delete_parameter", "AccessDenied")) =>
          pc = "delete_s3_bucket" \/ (Len(steps) = 4 /\ steps[4] = "delete_s3_bucket")

C7_Witness ==
    /\ args.action = "delete"
    /\ pc = "done"
    /\ HasCall("delete_parameter", "ParameterNotFound")
    /\ HasCall("objects.delete", "NoSuchBucket")
    /\ bucketCreated
    /\ raised = NoError
    /\ Logged("INFO", "SSM parameter \"/lt-chalice/phone\" does not exist.  Proceeding.")

ServiceApis ==
    {"create_bucket", "objects.delete", "bucket.delete", "get_caller_identity",
     "list_tags_for_resource", "put_parameter", "put_parameter(Overwrite)",
     "add_tags_to_resource", "delete_parameter"}
BenignCodes ==
    {"BucketAlreadyOwnedByYou", "NoSuchBucket", "ParameterAlreadyExists",
     "ParameterNotFound", "InvalidResourceId"}
\* an external call that failed with something the script has no benign reading of
Unexpected(c) ==
    c.api \in ServiceApis /\ c.code \notin ({OK} \cup BenignCodes)

\* the record the script logs for a failed call, written out
ErrorText(c) ==
    IF c.api = "create_bucket" THEN "Unable to create S3 bucket! " \o c.code
    ELSE IF c.api \in {"objects.delete", "bucket.delete"}
    THEN "Unable to delete S3 bucket! " \o c.code
    ELSE IF c.api = "list_tags_for_resource"
    THEN "Unable to get SSM parameter tags! " \o c.code
    ELSE IF c.api = "delete_parameter" THEN "Unable to delete SSM parameter! " \o c.code
    ELSE IF c.api = "get_caller_identity"
    THEN "Unable to retrieve current user.  Defaulting to \"lt-chalice-user\". "
            \o "An error occurred (" \o c.code
            \o ") when calling the GetCallerIdentity operation: " \o c.code
    ELSE "Unable to create SSM parameter! " \o c.code

LoggedAt(level, c) == Logged(level, ErrorText(c))
\* the error left the step function: it is the run's last call and ended the action
Aborted(i) == i = Len(calls) /\ pc = "raised" /\ raised = calls[i].code

\* C8 as stated: every unexpected service error of the action, the tag lookup, the
\* identity lookup and the overwrite and re-tag calls included, is logged with the
\* error payload and re-raised, which aborts the action.
C8_EveryUnexpectedErrorLoggedAndRaised ==
    \A i \in 1..Len(calls) :
        Unexpected(calls[i]) =>
            /\ LoggedAt("ERROR", calls[i]) \/ LoggedAt("WARNING", calls[i])
            /\ Aborted(i)

OtherKeysKept(old, new) ==
    \A k \in (DOMAIN old) \ {"environment_variables"} : k \in DOMAIN new /\ new[k] = old[k]
OldEnv(cfg) ==
    IF "environment_variables" \in DOMAIN cfg THEN cfg["environment_variables"]
    ELSE [k \in {} |-> ""]

\* C10: a configuration rewrite sets PHONE_NUM_PARAM and S3_BUCKET in
\* environment_variables (the given names on deploy, empty strings on delete,
\* creating the mapping if absent) and changes nothing else: every other top-level
\* key and every other entry of environment_variables keeps its value; a rewrite
\* that fails, and every other step, leaves the configuration as it was.
C10_ConfigRewriteFrame ==
    [][ IF pc = "update_chalice_config" /\ pc' \notin {"update_chalice_config", "raised"}
        THEN /\ DOMAIN config' = (DOMAIN config) \cup {"environment_variables"}
             /\ OtherKeysKept(config, config')
             /\ DOMAIN config'["environment_variables"]
                   = (DOMAIN OldEnv(config)) \cup {"PHONE_NUM_PARAM", "S3_BUCKET"}
             /\ \A k \in (DOMAIN OldEnv(config)) \ {"PHONE_NUM_PARAM", "S3_BUCKET"} :
                   config'["environment_variables"][k] = OldEnv(config)[k]
             /\ config'["environment_variables"]["PHONE_NUM_PARAM"]
                   = (IF args.action = "delete" THEN "" ELSE args.phone_num_name)
             /\ config'["environment_variables"]["S3_BUCKET"]
                   = (IF args.action = "delete" THEN "" ELSE args.s3_bucket)
        ELSE config' = config ]_vars

C10_Witness ==
    /\ args.action = "deploy"
    /\ pc = "chalice_command"
    /\ config = [version |-> "2.0", app_name |-> "lt-chalice",
                 environment_variables |->
                     [LOG_LEVEL |-> "INFO", PHONE_NUM_PARAM |-> "/lt-chalice/phone",
                      S3_BUCKET |-> "photos"]]
    /\ HasCall("create_bucket", "BucketAlreadyOwnedByYou")

\* the records the two identity lookups may log
LookupRecords ==
    {[level |-> "ERROR", msg |-> "Unable to get SSM parameter tags! AccessDenied"],
     [level |-> "WARNING",
      msg |-> "Unable to retrieve current user.  Defaulting to \"lt-chalice-user\". "
                \o "An error occurred (AccessDenied) when calling the GetCallerIdentity "
                \o "operation: AccessDenied"]}
\* the step logged something other than a lookup failure
StepLoggedOutcome ==
    \E j \in (Len(logcalls) + 1)..Len(logcalls') : logcalls'[j] \notin LookupRecords

\* C3 as stated: the parameter was created by A and is tagged CreatedBy = A; B, a
\* different identity, runs create_ssm_param on it: value and tag stay as they
\* were, a skip is logged, and nothing is raised.
C3_OtherCallerLeavesParameterAndLogsSkip ==
    [][ (/\ pc = "create_ssm_param"
         /\ pc' # pc
         /\ param.exists
         /\ creator \in Users
         /\ param.CreatedBy = creator
         /\ caller # creator) =>
            /\ param' = param
            /\ raised' = NoError
            /\ StepLoggedOutcome ]_vars

\* C4 as stated: an existing parameter is deleted or overwritten only by the
\* identity that created it; delete_ssm_param issues delete_parameter only when the
\* caller's identity equals the CreatedBy tag, and otherwise skips with a warning,
\* raises nothing and lets delete go on to the bucket.
C4_OnlyCreatorDeletesOrOverwrites ==
    [][ /\ (param.exists /\ param' # param) => caller = creator
        /\ (/\ pc = "delete_ssm_param"
            /\ pc' # pc
            /\ param.exists) =>
               IF \E i \in (Len(calls) + 1)..Len(calls') : calls'[i].api = "delete_parameter"
               THEN caller = param.CreatedBy
               ELSE /\ param' = param
                    /\ pc' = "delete_s3_bucket"
                    /\ raised' = NoError
                    /\ logcalls'[Len(logcalls')] =
                          [level |-> "WARNING",
                           msg |-> "SSM parameter \"/lt-chalice/phone\" was not created by you!  Skipping."]
      ]_vars

====
